---- MODULE Spec2Model ----
(***************************************************************************)
(* single-quote-keys: quote normalisation of Python string literals.       *)
(*                                                                         *)
(* Source text is a sequence of units.  A unit is a one-character string   *)
(* (every character of a literal token or of a comment is its own unit),   *)
(* the name of a non-ASCII character ("<U+00E9>"), or a lexeme of code     *)
(* (a name, an operator, a number) that stands for its characters.         *)
(* Decoded string values are sequences of code points (integers).          *)
(***************************************************************************)
EXTENDS Integers, Sequences, FiniteSets, TLC

VARIABLES module, roles, pc, run, out, files, main, history

vars == <<module, roles, pc, run, out, files, main, history>>

----------------------------------------------------------------------------
(* Characters and code points                                              *)

SQ == "'"
DQ == "\""
BSL == "\\"

\* The printable ASCII characters in code-point order, 0x20 .. 0x7e (the
\* grave accent, which a TLA+ string cannot hold, goes by its name).
Ascii ==
  << " ", "!", "\"", "#", "$", "%", "&", "'", "(", ")", "*", "+", ",", "-", ".", "/",
     "0", "1", "2", "3", "4", "5", "6", "7", "8", "9", ":", ";", "<", "=", ">", "?",
     "@", "A", "B", "C", "D", "E", "F", "G", "H", "I", "J", "K", "L", "M", "N", "O",
     "P", "Q", "R", "S", "T", "U", "V", "W", "X", "Y", "Z", "[", "\\", "]", "^", "_",
     "<U+0060>", "a", "b", "c", "d", "e", "f", "g", "h", "i", "j", "k", "l", "m", "n", "o",
     "p", "q", "r", "s", "t", "u", "v", "w", "x", "y", "z", "{", "|", "}", "~" >>

\* Non-ASCII characters a source file of the model may hold, with their
\* code points: a BMP letter and a character outside the BMP.  Both are
\* printable (str.isprintable) in CPython.
EACUTE == "<U+00E9>"
GRIN == "<U+1F600>"
NonAscii == << [ch |-> EACUTE, cp |-> 233], [ch |-> GRIN, cp |-> 128512] >>

Range(s) == { s[i] : i \in DOMAIN s }

Min(a, b) == IF a < b THEN a ELSE b
Max(a, b) == IF a > b THEN a ELSE b

IsAsciiChar(c) == \E i \in DOMAIN Ascii : Ascii[i] = c

\* ord(): the code point of one source character.
Ord(c) ==
  IF IsAsciiChar(c)
  THEN 31 + (CHOOSE i \in DOMAIN Ascii : Ascii[i] = c)
  ELSE NonAscii[CHOOSE i \in DOMAIN NonAscii : NonAscii[i].ch = c].cp

\* chr(), for the code points that have a source character in the model.
HasChar(n) == n \in 32..126 \/ \E i \in DOMAIN NonAscii : NonAscii[i].cp = n

Chr(n) ==
  IF n \in 32..126
  THEN Ascii[n - 31]
  ELSE NonAscii[CHOOSE i \in DOMAIN NonAscii : NonAscii[i].cp = n].ch

\* str.isprintable for one code point.  Outside ASCII the model knows the
\* characters of NonAscii; surrogates and C1 controls are not printable.
IsPrintable(n) == HasChar(n)

HexDigits == << "0", "1", "2", "3", "4", "5", "6", "7", "8", "9", "a", "b", "c", "d", "e", "f" >>
HexUpper == << "0", "1", "2", "3", "4", "5", "6", "7", "8", "9", "A", "B", "C", "D", "E", "F" >>

IsHex(c) == \E i \in 1..16 : HexDigits[i] = c \/ HexUpper[i] = c

HexVal(c) == (CHOOSE i \in 1..16 : HexDigits[i] = c \/ HexUpper[i] = c) - 1

IsOct(c) == \E i \in 1..8 : HexDigits[i] = c

\* '{:0<w>x}'.format(n)
RECURSIVE ToHex(_, _)
ToHex(n, w) ==
  IF w = 0 THEN << >> ELSE Append(ToHex(n \div 16, w - 1), HexDigits[(n % 16) + 1])

\* int(s[from .. from+w-1], base), or -1 when a digit is missing
RECURSIVE FromDigits(_, _, _, _)
FromDigits(s, from, w, base) ==
  IF w = 0 THEN 0
  ELSE IF from + w - 1 > Len(s) THEN -1
  ELSE LET shift(hi, c) ==
             IF hi < 0 \/ ~IsHex(c) \/ HexVal(c) >= base THEN -1 ELSE hi * base + HexVal(c)
       IN shift(FromDigits(s, from, w - 1, base), s[from + w - 1])

RECURSIVE Flatten(_)
Flatten(ss) ==
  IF ss = << >> THEN << >>
  ELSE IF Len(ss) = 1 THEN ss[1]
  ELSE Flatten(SubSeq(ss, 1, Len(ss) \div 2))
       \o Flatten(SubSeq(ss, Len(ss) \div 2 + 1, Len(ss)))

\* needle in haystack (Python's str.__contains__)
Contains(text, pat) ==
  \E i \in 1..(Len(text) - Len(pat) + 1) : SubSeq(text, i, i + Len(pat) - 1) = pat

StartsWith(text, pat) == Len(text) >= Len(pat) /\ SubSeq(text, 1, Len(pat)) = pat

----------------------------------------------------------------------------
(* strings.py: the literal token model                                     *)

\* Python's None, as a value that no node and no token equals.
None == [k |-> "None"]

\* The position of a node that the metadata of the parsed module does not
\* hold (PositionProvider answers for the nodes of the parsed tree only).
NoPos == 0

_split_prefix_and_quoting(text) ==
  LET quotes == { j \in DOMAIN text : text[j] \in {SQ, DQ} }
      cut(i) == << SubSeq(text, 1, i), SubSeq(text, i + 1, Len(text)) >>
  IN cut(IF quotes = {} THEN Len(text)
         ELSE (CHOOSE j \in quotes : \A k \in quotes : j <= k) - 1)

\* str.lower() on the letters a literal prefix can hold
Lower(c) ==
  CASE c = "R" -> "r" [] c = "B" -> "b" [] c = "U" -> "u" [] c = "F" -> "f" [] OTHER -> c

parse_prefix(text) ==
  LET ParsedStringPrefix(prefix, lower) ==
        [ has_raw |-> "r" \in lower,
          has_bytes |-> "b" \in lower,
          has_unicode |-> "u" \in lower,
          raw_prefix |-> prefix ]
      parsed(prefix) == ParsedStringPrefix(prefix, { Lower(prefix[i]) : i \in DOMAIN prefix })
  IN parsed(_split_prefix_and_quoting(text)[1])

is_triple_quoted(text) ==
  LET triple(rest) == StartsWith(rest, <<SQ, SQ, SQ>>) \/ StartsWith(rest, <<DQ, DQ, DQ>>)
  IN triple(_split_prefix_and_quoting(text)[2])

is_single_quoted(text) ==
  LET rest == _split_prefix_and_quoting(text)[2]
  IN (~is_triple_quoted(text)) /\ StartsWith(rest, <<SQ>>)

----------------------------------------------------------------------------
(* CPython builtins the token model calls: ast.literal_eval on a string    *)
(* literal token, repr() of a str, json.dumps() of a str.                  *)

EvalFail == [ok |-> FALSE, n |-> 0, cps |-> << >>]

SimpleEscapes ==
  << [c |-> BSL, cp |-> 92], [c |-> SQ, cp |-> 39], [c |-> DQ, cp |-> 34],
     [c |-> "a", cp |-> 7], [c |-> "b", cp |-> 8], [c |-> "f", cp |-> 12],
     [c |-> "n", cp |-> 10], [c |-> "r", cp |-> 13], [c |-> "t", cp |-> 9],
     [c |-> "v", cp |-> 11] >>

IsSimpleEscape(c) == \E i \in DOMAIN SimpleEscapes : SimpleEscapes[i].c = c

\* The escape sequence (or plain character) at the head of s: the code
\* points it denotes and the number of source characters it takes.
EscapeAt(s, bytes) ==
  LET c == s[1]
  IN IF c # BSL
     THEN IF bytes /\ Ord(c) > 127 THEN EvalFail
          ELSE [ok |-> TRUE, n |-> 1, cps |-> <<Ord(c)>>]
     ELSE IF Len(s) < 2 THEN EvalFail
     ELSE LET d == s[2]
          IN CASE IsSimpleEscape(d) ->
                    [ok |-> TRUE, n |-> 2,
                     cps |-> <<SimpleEscapes[CHOOSE i \in DOMAIN SimpleEscapes :
                                                SimpleEscapes[i].c = d].cp>>]
               [] d = "x" ->
                    LET v == FromDigits(s, 3, 2, 16)
                    IN IF v < 0 THEN EvalFail ELSE [ok |-> TRUE, n |-> 4, cps |-> <<v>>]
               [] d = "u" /\ ~bytes ->
                    LET v == FromDigits(s, 3, 4, 16)
                    IN IF v < 0 THEN EvalFail ELSE [ok |-> TRUE, n |-> 6, cps |-> <<v>>]
               [] d = "U" /\ ~bytes ->
                    LET v == FromDigits(s, 3, 8, 16)
                    IN IF v < 0 \/ v > 1114111 THEN EvalFail
                       ELSE [ok |-> TRUE, n |-> 10, cps |-> <<v>>]
               [] d = "N" /\ ~bytes -> EvalFail
               [] IsOct(d) ->
                    LET w == IF FromDigits(s, 2, 3, 8) >= 0 THEN 3
                             ELSE IF FromDigits(s, 2, 2, 8) >= 0 THEN 2 ELSE 1
                        v == FromDigits(s, 2, w, 8)
                    IN [ok |-> TRUE, n |-> 1 + w, cps |-> <<IF bytes THEN v % 256 ELSE v>>]
               [] OTHER ->
                    IF bytes /\ Ord(d) > 127 THEN EvalFail
                    ELSE [ok |-> TRUE, n |-> 2, cps |-> <<92, Ord(d)>>]

\* The body s decoded.  The decoder reads s from left to right, an escape
\* or a character at a time; as an escape takes a backslash, the character
\* after it and then digits only, the backslashes that start an escape are
\* those with an even number of backslashes right before them.
Unescape(s, bytes) ==
  LET backslashes_before(i) ==
        i - 1 - Max(0, CHOOSE k \in 0..(i - 1) :
                         /\ k = 0 \/ s[k] # BSL
                         /\ \A m \in (k + 1)..(i - 1) : s[m] = BSL)
      decoded(at) ==
        IF \E i \in DOMAIN s : ~at[i].ok THEN [ok |-> FALSE, value |-> << >>]
        ELSE [ok |-> TRUE,
              value |-> Flatten([j \in DOMAIN s |->
                          IF \E i \in 1..(j - 1) : i + at[i].n > j THEN << >>
                          ELSE at[j].cps])]
  IN decoded([i \in DOMAIN s |->
                IF s[i] = BSL /\ backslashes_before(i) % 2 = 0
                THEN EscapeAt(SubSeq(s, i, Len(s)), bytes)
                ELSE [ok |-> ~(bytes /\ Ord(s[i]) > 127), n |-> 1, cps |-> <<Ord(s[i])>>]])

\* ast.literal_eval(token) for a string-literal token: ok = FALSE stands
\* for SyntaxError / ValueError, kind tells str from bytes.
literal_eval(text) ==
  LET result(p, d) ==
        [ok |-> d.ok, kind |-> IF p.has_bytes THEN "bytes" ELSE "str", value |-> d.value]
      decode(p, body) ==
        result(p,
          IF p.has_raw
          THEN IF p.has_bytes /\ \E i \in DOMAIN body : Ord(body[i]) > 127
               THEN [ok |-> FALSE, value |-> << >>]
               ELSE [ok |-> TRUE, value |-> [i \in DOMAIN body |-> Ord(body[i])]]
          ELSE Unescape(body, p.has_bytes))
      unquote(p, rest, q) == decode(p, SubSeq(rest, q + 1, Len(rest) - q))
  IN unquote(parse_prefix(text), _split_prefix_and_quoting(text)[2],
             IF is_triple_quoted(text) THEN 3 ELSE 1)

\* One code point of repr(str) under the quote character q.
ReprChar(n, q) ==
  CASE n = Ord(q) \/ n = 92 -> <<BSL, Chr(n)>>
    [] n = 9 -> <<BSL, "t">>
    [] n = 10 -> <<BSL, "n">>
    [] n = 13 -> <<BSL, "r">>
    [] n < 32 \/ n = 127 -> <<BSL, "x">> \o ToHex(n, 2)
    [] n \in 32..126 -> <<Chr(n)>>
    [] IsPrintable(n) -> <<Chr(n)>>
    [] n <= 255 -> <<BSL, "x">> \o ToHex(n, 2)
    [] n <= 65535 -> <<BSL, "u">> \o ToHex(n, 4)
    [] OTHER -> <<BSL, "U">> \o ToHex(n, 8)

\* A repr that delimits every value with single quotes.
repr_single_quotes_always(value) ==
  <<SQ>> \o Flatten([i \in DOMAIN value |-> ReprChar(value[i], SQ)]) \o <<SQ>>

\* repr(value) of a str: single quotes unless the value holds a single
\* quote and no double quote.
repr(value) ==
  LET quoted(q) == <<q>> \o Flatten([i \in DOMAIN value |-> ReprChar(value[i], q)]) \o <<q>>
  IN quoted(IF 39 \in Range(value) /\ 34 \notin Range(value) THEN DQ ELSE SQ)

\* One code point of json.dumps(str) (ensure_ascii = True).
JsonChar(n) ==
  CASE n = 34 -> <<BSL, DQ>>
    [] n = 92 -> <<BSL, BSL>>
    [] n = 10 -> <<BSL, "n">>
    [] n = 13 -> <<BSL, "r">>
    [] n = 9 -> <<BSL, "t">>
    [] n = 12 -> <<BSL, "f">>
    [] n = 8 -> <<BSL, "b">>
    [] n \in 32..126 -> <<Chr(n)>>
    [] n < 65536 -> <<BSL, "u">> \o ToHex(n, 4)
    [] OTHER ->
         LET v == n - 65536
         IN <<BSL, "u">> \o ToHex(55296 + (v \div 1024), 4)
            \o <<BSL, "u">> \o ToHex(56320 + (v % 1024), 4)

json_dumps(value) ==
  <<DQ>> \o Flatten([i \in DOMAIN value |-> JsonChar(value[i])]) \o <<DQ>>

----------------------------------------------------------------------------
(* strings.py: the quote conversion primitives.  They take a SimpleString   *)
(* node and return a new node, built from the token alone, or None.        *)

\* cst.SimpleString(token): a new node, without parentheses and without a
\* position in the metadata of the parsed module.
cst_SimpleString(token) ==
  [k |-> "SimpleString", value |-> token, lpar |-> 0, pos |-> NoPos]

\* str.replace("u", "").replace("U", "")
StripU(s) == SelectSeq(s, LAMBDA c : c \notin {"u", "U"})

to_single_quoted_string(simple) ==
  LET result(original, new_token) ==
        IF new_token = original THEN None ELSE cst_SimpleString(new_token)
      \* the prefix that is put back last (the u is left out of it)
      keep_prefix(prefix, t1) ==
        IF prefix.raw_prefix # << >>
           /\ ~(prefix.has_unicode /\ prefix.raw_prefix # << >>
                /\ StartsWith(t1, prefix.raw_prefix))
        THEN (IF "u" \in { Lower(prefix.raw_prefix[i]) : i \in DOMAIN prefix.raw_prefix }
              THEN StripU(prefix.raw_prefix)
              ELSE prefix.raw_prefix) \o t1
        ELSE t1
      \* the u prefix that is put back first
      add_unicode(prefix, t0) ==
        IF prefix.has_unicode /\ prefix.raw_prefix = << >> THEN <<"u">> \o t0
        ELSE IF prefix.has_unicode /\ prefix.raw_prefix # << >> THEN prefix.raw_prefix \o t0
        ELSE t0
      requote(original, prefix, ev) ==
        IF ~ev.ok THEN None
        ELSE result(original, keep_prefix(prefix, add_unicode(prefix, repr(ev.value))))
      convert(original, prefix) ==
        IF prefix.has_raw \/ prefix.has_bytes THEN None
        ELSE requote(original, prefix, literal_eval(original))
      check(original) ==
        IF is_single_quoted(original) THEN None
        ELSE IF is_triple_quoted(original) THEN None
        ELSE convert(original, parse_prefix(original))
  IN check(simple.value)

to_double_quoted_string(simple) ==
  LET result(original, dq) == IF dq = original THEN None ELSE cst_SimpleString(dq)
      add_prefix(prefix, dq0) ==
        IF prefix.has_unicode /\ prefix.raw_prefix = << >> THEN <<"u">> \o dq0
        ELSE IF prefix.raw_prefix # << >> THEN prefix.raw_prefix \o dq0
        ELSE dq0
      requote(original, prefix, ev) ==
        IF ~ev.ok THEN None
        ELSE result(original, add_prefix(prefix, json_dumps(ev.value)))
      convert(original, prefix, rest) ==
        IF prefix.has_raw \/ prefix.has_bytes THEN None
        ELSE IF StartsWith(rest, <<DQ>>) /\ ~StartsWith(rest, <<DQ, DQ, DQ>>) THEN None
        ELSE requote(original, prefix, literal_eval(original))
      check(original) ==
        IF is_triple_quoted(original) THEN None
        ELSE convert(original, parse_prefix(original), _split_prefix_and_quoting(original)[2])
  IN check(simple.value)

----------------------------------------------------------------------------
(* constants.py                                                            *)

NOQA_TAG == << "q", "u", "o", "t", "e", "-", "k", "e", "y", "s" >>

\* The text QuoteKeysTransformer.__init__ looks for in the whole source.
FILE_NOQA ==
  << "#", " ", "n", "o", "q", "a", ":", " ", "q", "u", "o", "t", "e", "-", "k", "e", "y", "s" >>

ATTR_FUNCS == {"getattr", "hasattr", "setattr", "delattr"}
MAPPING_FIRST_KEY_METHODS == {"get", "pop", "setdefault"}
OPERATOR_GETTERS == {"attrgetter", "itemgetter", "methodcaller"}
FROM_KEYS == {"fromkeys"}
DUUNDER_KEY == {"__getitem__", "__setitem__"}
DUUNDER_ATTR == {"__getattr__", "__setattr__", "__delattr__", "__getattribute__"}

----------------------------------------------------------------------------
(* The syntax tree (libcst nodes) and its code.                            *)
(*   SimpleString  value (token text), lpar (pairs of parentheses), pos    *)
(*   Name          value                                                   *)
(*   Integer       value                                                   *)
(*   Attribute     value, attr                                             *)
(*   Call          func, args: Arg (value, keyword, star)                  *)
(*   Dict          elements: DictElement (key, value) |                    *)
(*                           StarredDictElement (value)                    *)
(*   List, Tuple, Set   elements: Element (value) | StarredElement (value) *)
(*   Subscript     value, slice: SubscriptElement (slice: Index (value,    *)
(*                 star) | Slice (lower, upper))                           *)
(* pos is the line on which the node ends, as PositionProvider reports it. *)
(* A module is a sequence of lines: a statement and a trailing comment.    *)

RECURSIVE Join(_, _)
Join(ss, sep) ==
  IF ss = << >> THEN << >>
  ELSE IF Len(ss) = 1 THEN ss[1]
  ELSE ss[1] \o sep \o Join(Tail(ss), sep)

RECURSIVE Repeat(_, _)
Repeat(u, n) == IF n = 0 THEN << >> ELSE <<u>> \o Repeat(u, n - 1)

\* The code of a node (CSTNode._codegen).
RECURSIVE code_for(_)
code_for(n) ==
  CASE n.k = "SimpleString" -> Repeat("(", n.lpar) \o n.value \o Repeat(")", n.lpar)
    [] n.k \in {"Name", "Integer"} -> <<n.value>>
    [] n.k = "Attribute" -> code_for(n.value) \o <<".", n.attr>>
    [] n.k = "Arg" ->
         (IF n.star = "" THEN << >> ELSE <<n.star>>)
         \o (IF n.keyword = "" THEN << >> ELSE <<n.keyword, "=">>)
         \o code_for(n.value)
    [] n.k = "Call" ->
         code_for(n.func) \o <<"(">>
         \o Join([i \in DOMAIN n.args |-> code_for(n.args[i])], <<", ">>) \o <<")">>
    [] n.k = "DictElement" -> code_for(n.key) \o <<": ">> \o code_for(n.value)
    [] n.k = "StarredDictElement" -> <<"**">> \o code_for(n.value)
    [] n.k = "Dict" ->
         <<"{">> \o Join([i \in DOMAIN n.elements |-> code_for(n.elements[i])], <<", ">>)
         \o <<"}">>
    [] n.k = "Element" -> code_for(n.value)
    [] n.k = "StarredElement" -> <<"*">> \o code_for(n.value)
    [] n.k = "List" ->
         <<"[">> \o Join([i \in DOMAIN n.elements |-> code_for(n.elements[i])], <<", ">>)
         \o <<"]">>
    [] n.k = "Tuple" ->
         <<"(">> \o Join([i \in DOMAIN n.elements |-> code_for(n.elements[i])], <<", ">>)
         \o (IF Len(n.elements) = 1 THEN <<",">> ELSE << >>) \o <<")">>
    [] n.k = "Set" ->
         <<"{">> \o Join([i \in DOMAIN n.elements |-> code_for(n.elements[i])], <<", ">>)
         \o <<"}">>
    [] n.k = "Index" -> (IF n.star = "" THEN << >> ELSE <<n.star>>) \o code_for(n.value)
    [] n.k = "Slice" -> code_for(n.lower) \o <<":">> \o code_for(n.upper)
    [] n.k = "SubscriptElement" -> code_for(n.slice)
    [] n.k = "Subscript" ->
         code_for(n.value) \o <<"[">>
         \o Join([i \in DOMAIN n.slice |-> code_for(n.slice[i])], <<", ">>) \o <<"]">>

NL == "\n"

line_code(ln) ==
  code_for(ln.stmt) \o (IF ln.comment = << >> THEN << >> ELSE <<"  ">> \o ln.comment)

\* Module.code
module_code(m) == Join([i \in DOMAIN m |-> line_code(m[i])], <<NL>>)

\* str.splitlines() (the model's text holds no line boundary but "\n")
RECURSIVE splitlines(_)
splitlines(text) ==
  IF text = << >> THEN << >>
  ELSE LET breaks == { i \in DOMAIN text : text[i] = NL }
           split(i) == <<SubSeq(text, 1, i - 1)>> \o splitlines(SubSeq(text, i + 1, Len(text)))
       IN IF breaks = {} THEN <<text>>
          ELSE split(CHOOSE j \in breaks : \A b \in breaks : j <= b)

----------------------------------------------------------------------------
(* transformer.py: QuoteKeysTransformer                                    *)

\* The end line PositionProvider holds for a node, NoPos when it holds
\* none (the model keeps a position on expression nodes only).
position_of(node) == IF "pos" \in DOMAIN node THEN node.pos ELSE NoPos

\* QuoteKeysTransformer.__init__
QuoteKeysTransformer(source_code) ==
  [ _lines |-> splitlines(source_code),
    _source_has_noqa |-> Contains(source_code, FILE_NOQA) ]

\* get_metadata raises KeyError for a node that is not a node of the
\* parsed module; every updated_node and every node a handler built is one.
_has_noqa_comment(self, node) ==
  IF position_of(node) = NoPos THEN FALSE
  ELSE LET line_no == Max(1, Min(Len(self._lines), position_of(node)))
           line_text == self._lines[line_no]
       IN Contains(line_text, NOQA_TAG)

\* A _maybe_requote that does not look at the file-wide signal.
_maybe_requote_without_file_signal(self, node, s) ==
  LET or_s(new_s) == IF new_s # None THEN new_s ELSE s
  IN IF _has_noqa_comment(self, node) \/ _has_noqa_comment(self, s)
     THEN s
     ELSE IF s.k = "SimpleString" THEN or_s(to_single_quoted_string(s))
     ELSE s

_maybe_requote(self, node, s) ==
  LET or_s(new_s) == IF new_s # None THEN new_s ELSE s
  IN IF self._source_has_noqa \/ _has_noqa_comment(self, node) \/ _has_noqa_comment(self, s)
     THEN s
     ELSE IF s.k = "SimpleString" THEN or_s(to_single_quoted_string(s))
     ELSE s

\* The value of "'" in value, for the value literal_eval returned: a str
\* is searched, a bytes object makes the operator raise TypeError.
leave_SimpleString_raises(updated_node) ==
  LET is_bytes(ev) == ev.ok /\ ev.kind = "bytes"
  IN is_bytes(literal_eval(updated_node.value))

leave_SimpleString(updated_node) ==
  LET or_updated_node(new_node) == IF new_node # None THEN new_node ELSE updated_node
      preferred(has_single, has_double) ==
        IF has_double /\ ~has_single
        THEN or_updated_node(to_single_quoted_string(updated_node))
        ELSE or_updated_node(to_double_quoted_string(updated_node))
      evaluated(ev) ==
        IF ~ev.ok
        THEN or_updated_node(to_double_quoted_string(updated_node))
        ELSE preferred(39 \in Range(ev.value), 34 \in Range(ev.value))
  IN evaluated(literal_eval(updated_node.value))

\* The dotted name of a call target, outermost attribute first (parts).
RECURSIVE name_parts(_)
name_parts(cur) ==
  IF cur.k = "Attribute" THEN <<cur.attr>> \o name_parts(cur.value)
  ELSE IF cur.k = "Name" THEN <<cur.value>>
  ELSE << >>

requote_elements(self, target) ==
  [ i \in DOMAIN target.elements |->
      LET elt == target.elements[i]
      IN IF elt.k = "Element"
         THEN [elt EXCEPT !.value = _maybe_requote(self, target, elt.value)]
         ELSE _maybe_requote(self, target, elt) ]

requote_keys(self, first) ==
  [ i \in DOMAIN first.elements |->
      LET elt == first.elements[i]
      IN IF elt.k = "DictElement"
         THEN [elt EXCEPT !.key = _maybe_requote(self, first, elt.key)]
         ELSE elt ]

requote_pairs(self, first) ==
  [ i \in DOMAIN first.elements |->
      LET elt == first.elements[i]
          value == IF elt.k = "Element" THEN elt.value ELSE elt
      IN IF value.k \in {"Tuple", "List"} /\ value.elements # << >>
         THEN LET pair0 == value.elements[1]
                  new0_val == _maybe_requote(self, value, pair0.value)
                  new_pair == [value EXCEPT !.elements[1] = [pair0 EXCEPT !.value = new0_val]]
              IN IF elt.k = "Element" THEN [elt EXCEPT !.value = new_pair] ELSE new_pair
         ELSE elt ]

\* A search for the attribute name that looks at the first argument only.
string_among_first_two_first_only(args) ==
  { i \in 1..Min(1, Len(args)) : args[i].value.k = "SimpleString" }

\* The arguments among the first two that are a SimpleString (the loop
\* over range(upto) takes the first of them).
string_among_first_two(args) ==
  { i \in 1..Min(2, Len(args)) : args[i].value.k = "SimpleString" }

leave_Call(self, updated_node) ==
  LET func == updated_node.func
      args == updated_node.args
      parts == IF func.k \in {"Name", "Attribute"} THEN name_parts(func) ELSE << >>
      \* func_name.split(".")[-1], "" when func_name is None or empty
      last == IF parts = << >> THEN "" ELSE parts[1]
      is_method == func.k = "Attribute"
      meth == IF is_method THEN func.attr ELSE ""
      requote_arg(i) ==
        [updated_node EXCEPT !.args[i].value = _maybe_requote(self, updated_node, args[i].value)]
      first == args[1].value
      dunder_idx == string_among_first_two(args)
      idx == CHOOSE i \in dunder_idx : \A j \in dunder_idx : i <= j
  IN CASE last \in ATTR_FUNCS /\ Len(args) >= 2 -> requote_arg(2)
       [] is_method /\ meth \in MAPPING_FIRST_KEY_METHODS /\ args # << >> -> requote_arg(1)
       [] last \in OPERATOR_GETTERS /\ args # << >> -> requote_arg(1)
       [] last \in {"dict", "OrderedDict"} /\ args # << >> /\ first.k = "Dict" ->
            [updated_node EXCEPT !.args[1].value.elements = requote_keys(self, first)]
       [] last \in {"dict", "OrderedDict"} /\ args # << >> /\ first.k \in {"List", "Tuple"} ->
            [updated_node EXCEPT !.args[1].value.elements = requote_pairs(self, first)]
       [] is_method /\ meth \in FROM_KEYS /\ args # << >>
          /\ first.k \in {"List", "Tuple", "Set"} ->
            [updated_node EXCEPT !.args[1].value.elements = requote_elements(self, first)]
       [] is_method /\ meth \in DUUNDER_KEY /\ args # << >> -> requote_arg(1)
       [] is_method /\ meth \in DUUNDER_ATTR /\ args # << >> /\ dunder_idx # {} ->
            requote_arg(idx)
       [] OTHER -> updated_node

leave_Dict(self, updated_node) ==
  [updated_node EXCEPT !.elements = requote_keys(self, updated_node)]

\* cst.Index(value=new_target): a new Index that holds the value alone.
cst_Index(value) == [k |-> "Index", value |-> value, star |-> ""]

leave_Subscript(self, updated_node) ==
  LET element(s, target, new_target) ==
        IF new_target # target THEN [s EXCEPT !.slice = cst_Index(new_target)] ELSE s
      requoted(s) ==
        IF s.slice.k = "Index"
        THEN element(s, s.slice.value, _maybe_requote(self, updated_node, s.slice.value))
        ELSE s
  IN [updated_node EXCEPT !.slice = [i \in DOMAIN updated_node.slice |->
                                       requoted(updated_node.slice[i])]]

\* A visit of a string literal that consults the opt-out signal before the
\* default pass.
visit_SimpleString_unless_opted_out(self, n) ==
  IF self._source_has_noqa \/ _has_noqa_comment(self, n)
  THEN [n EXCEPT !.pos = NoPos]
  ELSE leave_SimpleString([n EXCEPT !.pos = NoPos])

\* The visit of a string literal: leave_SimpleString gets the rebuilt node,
\* whatever the source says about opting out.
visit_SimpleString(self, n) == leave_SimpleString([n EXCEPT !.pos = NoPos])

\* CSTNode.visit with the transformer: the children are visited first, the
\* node is rebuilt from the results (a new node, unknown to the metadata),
\* and the leave_ handler of its kind gets the rebuilt node.
RECURSIVE visit(_, _)
visit(self, n) ==
  CASE n.k = "SimpleString" -> visit_SimpleString(self, n)
    [] n.k \in {"Name", "Integer"} -> [n EXCEPT !.pos = NoPos]
    [] n.k = "Attribute" -> [n EXCEPT !.pos = NoPos, !.value = visit(self, n.value)]
    [] n.k = "Call" ->
         leave_Call(self,
           [n EXCEPT !.pos = NoPos,
                     !.func = visit(self, n.func),
                     !.args = [i \in DOMAIN n.args |->
                                 [n.args[i] EXCEPT !.value = visit(self, n.args[i].value)]]])
    [] n.k = "Dict" ->
         leave_Dict(self,
           [n EXCEPT !.pos = NoPos,
                     !.elements = [i \in DOMAIN n.elements |->
                        LET e == n.elements[i]
                        IN IF e.k = "DictElement"
                           THEN [e EXCEPT !.key = visit(self, e.key),
                                          !.value = visit(self, e.value)]
                           ELSE [e EXCEPT !.value = visit(self, e.value)]]])
    [] n.k \in {"List", "Tuple", "Set"} ->
         [n EXCEPT !.pos = NoPos,
                   !.elements = [i \in DOMAIN n.elements |->
                      [n.elements[i] EXCEPT !.value = visit(self, n.elements[i].value)]]]
    [] n.k = "Subscript" ->
         leave_Subscript(self,
           [n EXCEPT !.pos = NoPos,
                     !.value = visit(self, n.value),
                     !.slice = [i \in DOMAIN n.slice |->
                        LET e == n.slice[i]
                        IN IF e.slice.k = "Index"
                           THEN [e EXCEPT !.slice.value = visit(self, e.slice.value)]
                           ELSE [e EXCEPT !.slice.lower = visit(self, e.slice.lower),
                                          !.slice.upper = visit(self, e.slice.upper)]]])

\* The string literals of a node, in the order of the code.
RECURSIVE literals(_)
literals(n) ==
  CASE n.k = "SimpleString" -> <<n>>
    [] n.k \in {"Name", "Integer"} -> << >>
    [] n.k = "Attribute" -> literals(n.value)
    [] n.k = "Call" ->
         literals(n.func) \o Flatten([i \in DOMAIN n.args |-> literals(n.args[i].value)])
    [] n.k = "Dict" ->
         Flatten([i \in DOMAIN n.elements |->
            IF n.elements[i].k = "DictElement"
            THEN literals(n.elements[i].key) \o literals(n.elements[i].value)
            ELSE literals(n.elements[i].value)])
    [] n.k \in {"List", "Tuple", "Set"} ->
         Flatten([i \in DOMAIN n.elements |-> literals(n.elements[i].value)])
    [] n.k = "Subscript" ->
         literals(n.value)
         \o Flatten([i \in DOMAIN n.slice |->
              IF n.slice[i].slice.k = "Index" THEN literals(n.slice[i].slice.value)
              ELSE literals(n.slice[i].slice.lower) \o literals(n.slice[i].slice.upper)])

module_literals(m) == Flatten([i \in DOMAIN m |-> literals(m[i].stmt)])

----------------------------------------------------------------------------
(* processor.py                                                            *)

\* transform_code(code), for the module m that cst.parse_module(code)
\* returns.  status tells a normal return from the TypeError that
\* leave_SimpleString lets escape.
transform_code(m) ==
  LET lits == module_literals(m)
      returned(code, new_module, new_code) ==
        [status |-> "ok", module |-> new_module, code |-> new_code,
         changed |-> new_code # code]
      visited(code, new_module) == returned(code, new_module, module_code(new_module))
      transformed(code, self) ==
        IF \E i \in DOMAIN lits : leave_SimpleString_raises(lits[i])
        THEN [status |-> "TypeError", module |-> m, code |-> code, changed |-> FALSE]
        ELSE visited(code, [i \in DOMAIN m |-> [m[i] EXCEPT !.stmt = visit(self, m[i].stmt)]])
      parsed(code) == transformed(code, QuoteKeysTransformer(code))
  IN parsed(module_code(m))

----------------------------------------------------------------------------
(* cst.parse_module: the parsed module knows the line of every node.       *)

RECURSIVE positioned(_, _)
positioned(n, ln) ==
  CASE n.k \in {"SimpleString", "Name", "Integer"} -> [n EXCEPT !.pos = ln]
    [] n.k = "Attribute" -> [n EXCEPT !.pos = ln, !.value = positioned(n.value, ln)]
    [] n.k = "Call" ->
         [n EXCEPT !.pos = ln,
                   !.func = positioned(n.func, ln),
                   !.args = [i \in DOMAIN n.args |->
                               [n.args[i] EXCEPT !.value = positioned(n.args[i].value, ln)]]]
    [] n.k = "Dict" ->
         [n EXCEPT !.pos = ln,
                   !.elements = [i \in DOMAIN n.elements |->
                      LET e == n.elements[i]
                      IN IF e.k = "DictElement"
                         THEN [e EXCEPT !.key = positioned(e.key, ln),
                                        !.value = positioned(e.value, ln)]
                         ELSE [e EXCEPT !.value = positioned(e.value, ln)]]]
    [] n.k \in {"List", "Tuple", "Set"} ->
         [n EXCEPT !.pos = ln,
                   !.elements = [i \in DOMAIN n.elements |->
                      [n.elements[i] EXCEPT !.value = positioned(n.elements[i].value, ln)]]]
    [] n.k = "Subscript" ->
         [n EXCEPT !.pos = ln,
                   !.value = positioned(n.value, ln),
                   !.slice = [i \in DOMAIN n.slice |->
                      LET e == n.slice[i]
                      IN IF e.slice.k = "Index"
                         THEN [e EXCEPT !.slice.value = positioned(e.slice.value, ln)]
                         ELSE [e EXCEPT !.slice.lower = positioned(e.slice.lower, ln),
                                        !.slice.upper = positioned(e.slice.upper, ln)]]]

\* The tree cst.parse_module builds for the code of m.
parse_module(m) == [i \in DOMAIN m |-> [m[i] EXCEPT !.stmt = positioned(m[i].stmt, i)]]

----------------------------------------------------------------------------
(* The sources the model transforms.                                       *)

MaxPieces == 2
MaxLines == 2
MaxRuns == 2

Str(tok) == [k |-> "SimpleString", value |-> tok, lpar |-> 0, pos |-> NoPos]
Paren(tok) == [k |-> "SimpleString", value |-> tok, lpar |-> 1, pos |-> NoPos]
Name(id) == [k |-> "Name", value |-> id, pos |-> NoPos]
Integer(v) == [k |-> "Integer", value |-> v, pos |-> NoPos]
Attribute(value, attr) == [k |-> "Attribute", value |-> value, attr |-> attr, pos |-> NoPos]
Arg(value) == [k |-> "Arg", value |-> value, keyword |-> "", star |-> ""]
Keyword(name, value) == [k |-> "Arg", value |-> value, keyword |-> name, star |-> ""]
Starred(value) == [k |-> "Arg", value |-> value, keyword |-> "", star |-> "*"]
Call(func, args) == [k |-> "Call", func |-> func, args |-> args, pos |-> NoPos]
DictElement(key, value) == [k |-> "DictElement", key |-> key, value |-> value]
Dict(elements) == [k |-> "Dict", elements |-> elements, pos |-> NoPos]
Element(value) == [k |-> "Element", value |-> value]
List(elements) == [k |-> "List", elements |-> elements, pos |-> NoPos]
Tuple(elements) == [k |-> "Tuple", elements |-> elements, pos |-> NoPos]
Set(elements) == [k |-> "Set", elements |-> elements, pos |-> NoPos]
Index(value, star) ==
  [k |-> "SubscriptElement", slice |-> [k |-> "Index", value |-> value, star |-> star]]
Slice(lower, upper) ==
  [k |-> "SubscriptElement", slice |-> [k |-> "Slice", lower |-> lower, upper |-> upper]]
Subscript(value, slice) == [k |-> "Subscript", value |-> value, slice |-> slice, pos |-> NoPos]

\* The pieces literal bodies are made of: plain characters, both quote
\* characters bare and escaped, escapes of a backslash, of a control
\* character, of an ASCII and of a BMP character, an escape that cannot be
\* decoded, a BMP and a non-BMP character.
Pieces ==
  { <<"a">>, <<SQ>>, <<DQ>>, <<BSL, SQ>>, <<BSL, DQ>>, <<BSL, BSL>>, <<BSL, "n">>,
    <<BSL, "x", "4", "1">>, <<BSL, "x", "Z">>, <<BSL, "u", "0", "0", "e", "9">>,
    <<EACUTE>>, <<GRIN>> }

\* A body that decodes to the file-wide opt-out text and does not hold it:
\* the hyphen is written as an escape.
EscapedOptOut ==
  << "#", " ", "n", "o", "q", "a", ":", " ", "q", "u", "o", "t", "e",
     BSL, "x", "2", "d", "k", "e", "y", "s" >>

RECURSIVE BodiesUpTo(_, _)
BodiesUpTo(ps, n) ==
  LET longer(shorter) == shorter \cup { p \o b : p \in ps, b \in shorter }
  IN IF n = 0 THEN { << >> } ELSE longer(BodiesUpTo(ps, n - 1))

\* Plain literals: every body of up to MaxPieces pieces that the quote
\* character can delimit (it does not occur bare in the body).
PlainTokens ==
  { <<q>> \o b \o <<q>> : q \in {SQ, DQ}, b \in BodiesUpTo(Pieces \ {<<SQ>>, <<DQ>>}, MaxPieces) }
  \cup { <<SQ>> \o b \o <<SQ>> : b \in BodiesUpTo(Pieces \ {<<SQ>>}, MaxPieces) }
  \cup { <<DQ>> \o b \o <<DQ>> : b \in BodiesUpTo(Pieces \ {<<DQ>>}, MaxPieces) }
  \cup { <<q>> \o EscapedOptOut \o <<q>> : q \in {SQ, DQ} }

\* Literals of the other categories: u-prefixed, raw, bytes, triple-quoted.
PrefixedTokens ==
  { pre \o <<q>> \o b \o <<q>> :
      pre \in { <<"u">>, <<"U">>, <<"r">>, <<"b">>, <<"R">>, <<"B">>, <<"r", "b">> },
      q \in {SQ, DQ},
      b \in { <<"a">>, <<BSL, "x", "4", "1">>, <<BSL, "x", "Z">>, <<BSL, BSL>> } }

TripleTokens ==
  { pre \o <<q, q, q>> \o b \o <<q, q, q>> :
      pre \in { << >>, <<"u">>, <<"r">>, <<"b">> },
      q \in {SQ, DQ},
      b \in { <<"a">>, <<BSL, "x", "4", "1">>, <<SQ, "a">>, <<DQ, "a">> } }

AllTokens == PlainTokens \cup PrefixedTokens \cup TripleTokens

\* One literal of every category and quote style, for the sources that
\* hold several literals.
FewTokens ==
  { <<DQ, "a", DQ>>, <<SQ, "a", SQ>>, <<DQ, SQ, DQ>>, <<SQ, DQ, SQ>>,
    <<SQ, BSL, SQ, BSL, DQ, SQ>>, <<"u", DQ, "a", DQ>>, <<"r", DQ, "a", DQ>>,
    <<"b", DQ, "a", DQ>>, <<DQ, DQ, DQ, "a", DQ, DQ, DQ>>, <<SQ, BSL, "x", "Z", SQ>> }

\* "#noqa: quote-keys" (constants.NOQA_PATTERN): it holds the tag but is
\* not the text the file-wide test looks for.
NOQA_PATTERN ==
  << "#", "n", "o", "q", "a", ":", " ", "q", "u", "o", "t", "e", "-", "k", "e", "y", "s" >>

Comments == { << >>, FILE_NOQA, NOQA_PATTERN, <<"#", " ", "x">> }

\* The statements with one literal a.  In a key shape the literal holds a
\* recognized key position (a positional argument, a dict key, an element
\* or an index, as the table of key positions lists them); in a text
\* shape it holds any other place.
obj == Name("obj")
d == Name("d")
one == Integer("1")

KeyShapes ==
  { "getattr", "hasattr", "setattr", "delattr", "get", "pop", "setdefault",
    "attrgetter", "itemgetter", "methodcaller", "dict_literal", "dict_of_dict",
    "dict_of_pairs", "OrderedDict_of_pairs", "fromkeys_list", "fromkeys_tuple",
    "fromkeys_set", "subscript", "star_subscript", "paren_subscript", "__getitem__",
    "__setitem__", "__getattr__", "__setattr__", "__delattr__", "__getattribute__" }

TextShapes ==
  { "expression", "paren", "print", "dict_value", "bare_get", "getattr_object",
    "getattr_alone", "slice", "dict_of_text", "fromkeys_value", "tuple_in_get",
    "get_keyword", "get_starred", "getattr_keyword", "__setattr___third" }

Statement(shape, a) ==
  CASE shape = "getattr" -> Call(Name("getattr"), <<Arg(obj), Arg(Str(a))>>)
    [] shape = "hasattr" -> Call(Name("hasattr"), <<Arg(obj), Arg(Str(a))>>)
    [] shape = "setattr" -> Call(Name("setattr"), <<Arg(obj), Arg(Str(a)), Arg(one)>>)
    [] shape = "delattr" ->
         Call(Attribute(Name("builtins"), "delattr"), <<Arg(obj), Arg(Str(a))>>)
    [] shape = "get" -> Call(Attribute(d, "get"), <<Arg(Str(a))>>)
    [] shape = "pop" -> Call(Attribute(d, "pop"), <<Arg(Str(a))>>)
    [] shape = "setdefault" -> Call(Attribute(d, "setdefault"), <<Arg(Str(a)), Arg(one)>>)
    [] shape = "attrgetter" ->
         Call(Attribute(Name("operator"), "attrgetter"), <<Arg(Str(a))>>)
    [] shape = "itemgetter" -> Call(Name("itemgetter"), <<Arg(Str(a))>>)
    [] shape = "methodcaller" ->
         Call(Attribute(Name("operator"), "methodcaller"), <<Arg(Str(a))>>)
    [] shape = "dict_literal" -> Dict(<<DictElement(Str(a), one)>>)
    [] shape = "dict_of_dict" ->
         Call(Name("dict"), <<Arg(Dict(<<DictElement(Str(a), one)>>))>>)
    [] shape = "dict_of_pairs" ->
         Call(Name("dict"), <<Arg(List(<<Element(Tuple(<<Element(Str(a)), Element(one)>>))>>))>>)
    [] shape = "OrderedDict_of_pairs" ->
         Call(Attribute(Name("collections"), "OrderedDict"),
              <<Arg(Tuple(<<Element(Tuple(<<Element(Str(a)), Element(one)>>))>>))>>)
    [] shape = "fromkeys_list" ->
         Call(Attribute(Name("dict"), "fromkeys"), <<Arg(List(<<Element(Str(a))>>))>>)
    [] shape = "fromkeys_tuple" ->
         Call(Attribute(d, "fromkeys"), <<Arg(Tuple(<<Element(Str(a))>>))>>)
    [] shape = "fromkeys_set" ->
         Call(Attribute(d, "fromkeys"), <<Arg(Set(<<Element(Str(a))>>))>>)
    [] shape = "subscript" -> Subscript(d, <<Index(Str(a), "")>>)
    [] shape = "star_subscript" -> Subscript(d, <<Index(Str(a), "*")>>)
    [] shape = "paren_subscript" -> Subscript(d, <<Index(Paren(a), "")>>)
    [] shape = "__getitem__" -> Call(Attribute(obj, "__getitem__"), <<Arg(Str(a))>>)
    [] shape = "__setitem__" -> Call(Attribute(obj, "__setitem__"), <<Arg(Str(a)), Arg(one)>>)
    [] shape = "__getattr__" ->
         Call(Attribute(Name("type"), "__getattr__"), <<Arg(obj), Arg(Str(a))>>)
    [] shape = "__setattr__" -> Call(Attribute(obj, "__setattr__"), <<Arg(Str(a)), Arg(one)>>)
    [] shape = "__delattr__" -> Call(Attribute(obj, "__delattr__"), <<Arg(Str(a))>>)
    [] shape = "__getattribute__" ->
         Call(Attribute(obj, "__getattribute__"), <<Arg(Str(a))>>)
    [] shape = "expression" -> Str(a)
    [] shape = "paren" -> Paren(a)
    [] shape = "print" -> Call(Name("print"), <<Arg(Str(a))>>)
    [] shape = "dict_value" -> Dict(<<DictElement(Name("k"), Str(a))>>)
    [] shape = "bare_get" -> Call(Name("get"), <<Arg(Str(a))>>)
    [] shape = "getattr_object" -> Call(Name("getattr"), <<Arg(Str(a)), Arg(Name("name"))>>)
    [] shape = "getattr_alone" -> Call(Name("getattr"), <<Arg(Str(a))>>)
    [] shape = "slice" -> Subscript(d, <<Slice(Str(a), one)>>)
    [] shape = "dict_of_text" -> Call(Name("dict"), <<Arg(Str(a))>>)
    [] shape = "fromkeys_value" ->
         Call(Attribute(d, "fromkeys"), <<Arg(Name("keys")), Arg(Str(a))>>)
    [] shape = "tuple_in_get" ->
         Call(Attribute(d, "get"), <<Arg(Tuple(<<Element(Str(a)), Element(one)>>))>>)
    [] shape = "get_keyword" -> Call(Attribute(d, "get"), <<Keyword("name", Str(a))>>)
    [] shape = "get_starred" -> Call(Attribute(d, "get"), <<Starred(Str(a))>>)
    [] shape = "getattr_keyword" ->
         Call(Name("getattr"), <<Arg(obj), Keyword("default", Str(a))>>)
    [] shape = "__setattr___third" ->
         Call(Attribute(obj, "__setattr__"), <<Arg(obj), Arg(one), Arg(Str(a))>>)

\* The statements with two literals a and b, in the order of the code.
PairShapes ==
  { "getattr_default", "get_default", "dict_item", "__setattr___value", "index_pair",
    "fromkeys_two", "methodcaller_args" }

PairStatement(shape, a, b) ==
  CASE shape = "getattr_default" ->
         Call(Name("getattr"), <<Arg(obj), Arg(Str(a)), Arg(Str(b))>>)
    [] shape = "get_default" -> Call(Attribute(d, "get"), <<Arg(Str(a)), Arg(Str(b))>>)
    [] shape = "dict_item" -> Dict(<<DictElement(Str(a), Str(b))>>)
    [] shape = "__setattr___value" ->
         Call(Attribute(obj, "__setattr__"), <<Arg(Str(a)), Arg(Str(b))>>)
    [] shape = "index_pair" -> Subscript(d, <<Index(Str(a), ""), Index(Str(b), "")>>)
    [] shape = "fromkeys_two" ->
         Call(Attribute(d, "fromkeys"), <<Arg(List(<<Element(Str(a)), Element(Str(b))>>))>>)
    [] shape = "methodcaller_args" ->
         Call(Name("methodcaller"), <<Arg(Str(a)), Arg(Str(b))>>)

PairRoles(shape) ==
  IF shape \in {"index_pair", "fromkeys_two"} THEN <<"key", "key">> ELSE <<"key", "text">>

\* The second literal of a statement of two literals.
SecondTokens == { <<DQ, "a", DQ>>, <<SQ, "a", SQ>>, <<SQ, DQ, SQ>>, <<"b", SQ, "a", SQ>> }

\* A line is described by its shape, its literals a and b (<< >> when the
\* shape has none) and its comment.
NoToken == << >>

StatementOf(dsc) ==
  IF dsc.shape \in PairShapes THEN PairStatement(dsc.shape, dsc.a, dsc.b)
  ELSE IF dsc.shape = "pass" THEN Name("pass")
  ELSE Statement(dsc.shape, dsc.a)

RolesOf(dsc) ==
  IF dsc.shape \in PairShapes THEN PairRoles(dsc.shape)
  ELSE IF dsc.shape \in KeyShapes THEN <<"key">>
  ELSE IF dsc.shape \in TextShapes THEN <<"text">>
  ELSE << >>

\* FullLines: the plain subscript and the plain expression over every
\* token.  FewLines: every shape over FewTokens, and a statement without a
\* literal.  Each with every comment.
FullLines ==
  [shape : {"subscript", "expression"}, a : AllTokens, b : {NoToken}, comment : Comments]

FewLines ==
  [shape : KeyShapes \cup TextShapes, a : FewTokens, b : {NoToken}, comment : Comments]
  \cup [shape : PairShapes, a : FewTokens, b : SecondTokens, comment : Comments]
  \cup [shape : {"pass"}, a : {NoToken}, b : {NoToken}, comment : Comments]

\* The first line of a source of several lines, and the lines after it.
FirstLines ==
  [shape : {"subscript", "hasattr", "dict_literal", "expression"},
   a : FewTokens, b : {NoToken}, comment : Comments]

MoreLines ==
  [shape : {"pass"}, a : {NoToken}, b : {NoToken}, comment : Comments]
  \cup [shape : {"subscript", "hasattr"}, a : { <<DQ, "a", DQ>>, <<SQ, "a", SQ>> },
        b : {NoToken}, comment : { << >> }]

RECURSIVE LinesAfter(_)
LinesAfter(n) ==
  IF n = 0 THEN { << >> }
  ELSE { <<l>> \o t : l \in MoreLines, t \in LinesAfter(n - 1) }

\* The sources: one line, or a first line and up to MaxLines - 1 more.
Sources ==
  { <<l>> : l \in FullLines \cup FewLines }
  \cup UNION { { <<l>> \o t : l \in FirstLines, t \in LinesAfter(n) } : n \in 1..(MaxLines - 1) }

\* The module cst.parse_module builds for a source.
SourceModule(src) ==
  parse_module([i \in DOMAIN src |->
                  [stmt |-> StatementOf(src[i]), comment |-> src[i].comment]])

----------------------------------------------------------------------------
(* The state machine: a source is transformed, and the code that comes out *)
(* is parsed and transformed again.                                        *)
(*   module  the parsed module the next (or last) run reads                *)
(*   roles   the role of each literal of the module, in code order         *)
(*   pc      "ready" before a run, "done" after it                         *)
(*   run     the number of runs made                                       *)
(*   out     the result of the last run                                    *)

NoResult == [status |-> "none", module |-> << >>, code |-> << >>, changed |-> FALSE]

Init ==
  \E src \in Sources :
    /\ module = SourceModule(src)
    /\ roles = Flatten([i \in DOMAIN src |-> RolesOf(src[i])])
    /\ pc = "ready"
    /\ run = 0
    /\ out = NoResult
    /\ files = << >> /\ main = << >> /\ history = << >>

\* processor.transform_code on the code of module
TransformCode ==
  /\ pc = "ready"
  /\ out' = transform_code(module)
  /\ pc' = "done"
  /\ run' = run + 1
  /\ UNCHANGED <<module, roles, files, main, history>>

\* The caller feeds the code that came out to transform_code again.
Reapply ==
  /\ pc = "done"
  /\ out.status = "ok"
  /\ run < MaxRuns
  /\ module' = parse_module(out.module)
  /\ pc' = "ready"
  /\ UNCHANGED <<roles, run, out, files, main, history>>

Next == TransformCode \/ Reapply

Spec == Init /\ [][Next]_vars

----------------------------------------------------------------------------
(* The quote conversion primitives on their own: a token is drawn and one  *)
(* of the two primitives is applied to the SimpleString that holds it.     *)
(*   module  the one expression statement that holds the token             *)
(*   pc      "ready", then the name of the primitive applied               *)
(*   out     what the primitive returned: a SimpleString or None           *)

PrimitiveInit ==
  \E tok \in AllTokens :
    /\ module = <<[stmt |-> cst_SimpleString(tok), comment |-> << >>]>>
    /\ roles = <<"text">>
    /\ pc = "ready"
    /\ run = 0
    /\ out = NoResult
    /\ files = << >> /\ main = << >> /\ history = << >>

ToSingleQuotedString ==
  /\ pc = "ready"
  /\ out' = to_single_quoted_string(module[1].stmt)
  /\ pc' = "to_single_quoted_string"
  /\ run' = run + 1
  /\ UNCHANGED <<module, roles, files, main, history>>

ToDoubleQuotedString ==
  /\ pc = "ready"
  /\ out' = to_double_quoted_string(module[1].stmt)
  /\ pc' = "to_double_quoted_string"
  /\ run' = run + 1
  /\ UNCHANGED <<module, roles, files, main, history>>

PrimitiveNext == ToSingleQuotedString \/ ToDoubleQuotedString

PrimitiveSpec == PrimitiveInit /\ [][PrimitiveNext]_vars

----------------------------------------------------------------------------
(* pathlib and filesystem.py: paths, suffixes and exclusion globs.  A path *)
(* is the sequence of its components, a component the sequence of its      *)
(* characters.                                                             *)

\* PurePath.suffix: the final component from its last dot on, when that
\* dot is neither its first nor its last character.
suffix(path) ==
  LET from_dot(name, dots) ==
        IF dots = {} THEN << >>
        ELSE LET i == CHOOSE last \in dots : \A e \in dots : e <= last
             IN IF 1 < i /\ i < Len(name) THEN SubSeq(name, i, Len(name)) ELSE << >>
      of_name(name) == from_dot(name, { i \in DOMAIN name : name[i] = "." })
  IN of_name(path[Len(path)])

\* fnmatch.fnmatchcase on one component: * stands for any characters, ? for
\* one character.
RECURSIVE fnmatchcase(_, _)
fnmatchcase(name, pat) ==
  IF pat = << >> THEN name = << >>
  ELSE IF pat[1] = "*"
       THEN \E k \in 0..Len(name) : fnmatchcase(SubSeq(name, k + 1, Len(name)), Tail(pat))
       ELSE /\ name # << >>
            /\ pat[1] = "?" \/ pat[1] = name[1]
            /\ fnmatchcase(Tail(name), Tail(pat))

\* PurePath.match with a relative pattern: the pattern is matched against
\* the last components of the path, component by component.
match(path, pat) ==
  /\ Len(pat) <= Len(path)
  /\ \A k \in 1..Len(pat) :
       fnmatchcase(path[Len(path) - Len(pat) + k], pat[k])

is_path_excluded(path, patterns) == \E pat \in patterns : match(path, pat)

----------------------------------------------------------------------------
(* cli.py: main over files.                                                *)
(*   files    the file system: the module each existing path holds (its    *)
(*            text is the code of that module)                             *)
(*   main     the frame of cli.main: args (fix, paths), config, the index  *)
(*            of the next path, any_changed and the value returned         *)
(*   history  what the call did so far: the files it found (before), the   *)
(*            paths it processed, wrote and printed, and how the earlier   *)
(*            calls ended                                                  *)
(*   module, out  the module process_file read last and its result         *)
(*   pc       "idle", "loop", "returned" or "raised"; run counts the calls *)

MaxPaths == 2
MaxMainRuns == 2

\* The paths of the model: a.py, b.py, pkg/skip.py, notes.txt and
\* missing.py.
Paths ==
  [a_py |-> << <<"a", ".", "p", "y">> >>,
   b_py |-> << <<"b", ".", "p", "y">> >>,
   skip_py |-> << <<"p", "k", "g">>, <<"s", "k", "i", "p", ".", "p", "y">> >>,
   notes_txt |-> << <<"n", "o", "t", "e", "s", ".", "t", "x", "t">> >>,
   missing_py |-> << <<"m", "i", "s", "s", "i", "n", "g", ".", "p", "y">> >>]

\* The paths that exist, and the paths an argument can name.
ExistingPaths == { Paths.a_py, Paths.b_py, Paths.skip_py, Paths.notes_txt }
GivenPaths == ExistingPaths \cup { Paths.missing_py }

\* The exclude lists of pyproject.toml: none, ["**/skip.py"], ["a.py"] and
\* ["*.txt", "b?.py"].
ExcludeLists ==
  { {}, { << <<"*", "*">>, <<"s", "k", "i", "p", ".", "p", "y">> >> }, { Paths.a_py },
    { << <<"*", ".", "t", "x", "t">> >>, << <<"b", "?", ".", "p", "y">> >> } }

\* What a file holds: a key to requote, a key already single-quoted, a key
\* that takes two runs to settle, a bytes literal.
FileContents ==
  LET one_line(shape, a) == << [shape |-> shape, a |-> a, b |-> NoToken, comment |-> << >>] >>
  IN [double_quoted_key |-> one_line("hasattr", <<DQ, "a", DQ>>),
      single_quoted_key |-> one_line("hasattr", <<SQ, "a", SQ>>),
      non_bmp_key |-> one_line("subscript", <<DQ, GRIN, DQ>>),
      bytes_literal |-> one_line("expression", <<"b", SQ, "a", SQ>>)]

\* a.py holds any of them, b.py a key (double- or single-quoted), every
\* other file a double-quoted key.
FileSystems ==
  { [path \in ExistingPaths |->
       SourceModule(IF path = Paths.a_py THEN a
                    ELSE IF path = Paths.b_py THEN b
                    ELSE FileContents.double_quoted_key)] :
      a \in { FileContents[c] : c \in DOMAIN FileContents },
      b \in { FileContents.double_quoted_key, FileContents.single_quoted_key } }

RECURSIVE PathLists(_)
PathLists(n) ==
  LET longer(shorter) == shorter \cup { <<path>> \o l : path \in GivenPaths, l \in shorter }
  IN IF n = 0 THEN { << >> } ELSE longer(PathLists(n - 1))

\* Path.read_text
read_text(fs, path) == module_code(fs[path])

NoHistory(fs) ==
  [before |-> fs, processed |-> << >>, written |-> << >>, printed |-> << >>, calls |-> << >>]

CliInit ==
  \E fs \in FileSystems, paths \in PathLists(MaxPaths), excludes \in ExcludeLists :
    /\ files = fs
    /\ main = [fix |-> FALSE, paths |-> paths, config |-> [excludes |-> excludes],
               i |-> 1, any_changed |-> FALSE, rc |-> << >>]
    /\ history = NoHistory(fs)
    /\ module = << >>
    /\ roles = << >>
    /\ pc = "idle"
    /\ run = 0
    /\ out = NoResult

\* main is called, with or without --fix, over the same paths and with the
\* same pyproject.toml.
MainCall ==
  /\ pc \in {"idle", "returned", "raised"}
  /\ run < MaxMainRuns
  /\ \E fix \in BOOLEAN :
       main' = [main EXCEPT !.fix = fix, !.i = 1, !.any_changed = FALSE, !.rc = << >>]
  /\ history' =
       [NoHistory(files) EXCEPT
          !.calls = IF pc = "idle" THEN << >>
                    ELSE Append(history.calls, [fix |-> main.fix, returned |-> pc = "returned"])]
  /\ pc' = "loop"
  /\ run' = run + 1
  /\ UNCHANGED <<module, roles, out, files>>

\* The tests that make the loop go on to the next path (Config.is_excluded
\* is is_path_excluded with the excludes of the config).
skipped(path) ==
  \/ path \notin DOMAIN files
  \/ suffix(path) # <<".", "p", "y">>
  \/ is_path_excluded(path, main.config.excludes)

Continue ==
  /\ pc = "loop"
  /\ main.i <= Len(main.paths)
  /\ skipped(main.paths[main.i])
  /\ main' = [main EXCEPT !.i = main.i + 1]
  /\ UNCHANGED <<module, roles, pc, run, out, files, history>>

\* A write that does not ask for --fix.
writes_whenever_changed(result, fix) == result.changed

\* path.write_text(result.code) is reached
writes(result, fix) == result.changed /\ fix

\* process_file(path) and what main does with the result
ProcessFile ==
  /\ pc = "loop"
  /\ main.i <= Len(main.paths)
  /\ ~skipped(main.paths[main.i])
  /\ module' = parse_module(files[main.paths[main.i]])
  /\ out' = transform_code(module')
  /\ IF out'.status # "ok"
     THEN /\ pc' = "raised"
          /\ history' = [history EXCEPT !.processed = Append(history.processed, main.paths[main.i])]
          /\ UNCHANGED <<main, files>>
     ELSE /\ pc' = pc
          /\ main' = [main EXCEPT !.i = main.i + 1,
                                  !.any_changed = main.any_changed \/ out'.changed]
          /\ files' = IF writes(out', main.fix)
                      THEN [files EXCEPT ![main.paths[main.i]] = out'.module]
                      ELSE files
          /\ history' =
               [history EXCEPT
                  !.processed = Append(history.processed, main.paths[main.i]),
                  !.written = IF writes(out', main.fix)
                              THEN Append(history.written,
                                          [path |-> main.paths[main.i], original |-> files[main.paths[main.i]], code |-> out'.code])
                              ELSE history.written,
                  !.printed = IF out'.changed /\ ~main.fix
                              THEN Append(history.printed, main.paths[main.i])
                              ELSE history.printed]
  /\ UNCHANGED <<roles, run>>

\* return 1 if any_changed else 0
Return ==
  /\ pc = "loop"
  /\ main.i > Len(main.paths)
  /\ main' = [main EXCEPT !.rc = <<IF main.any_changed THEN 1 ELSE 0>>]
  /\ pc' = "returned"
  /\ UNCHANGED <<module, roles, run, out, files, history>>

CliNext == MainCall \/ Continue \/ ProcessFile \/ Return

CliSpec == CliInit /\ [][CliNext]_vars

----------------------------------------------------------------------------
(* What the claims speak of.                                               *)

Done == pc = "done"
Returned == Done /\ out.status = "ok"

\* The literals the run read and the literals it emitted, in code order
\* (the transformer keeps the shape of the tree, so they pair up).
SourceLiterals == module_literals(module)
EmittedLiterals == module_literals(out.module)
Slots == DOMAIN SourceLiterals

SourceToken(i) == SourceLiterals[i].value
EmittedToken(i) == EmittedLiterals[i].value

SourceCode == module_code(module)

\* Raw, byte-prefixed or triple-quoted.
Excluded(tok) ==
  parse_prefix(tok).has_raw \/ parse_prefix(tok).has_bytes \/ is_triple_quoted(tok)

Decodable(tok) == literal_eval(tok).ok

is_double_quoted(tok) ==
  (~is_triple_quoted(tok)) /\ StartsWith(_split_prefix_and_quoting(tok)[2], <<DQ>>)

HasSingle(tok) == 39 \in Range(literal_eval(tok).value)
HasDouble(tok) == 34 \in Range(literal_eval(tok).value)

\* C1: transform_code applied to the code transform_code returned returns
\* that code again, with changed = FALSE.
C1_Idempotent ==
  (Done /\ run = 2) =>
    (out.status = "ok" /\ out.code = SourceCode /\ ~out.changed)

\* C2: every token transform_code rewrites decodes to the value the
\* original token decodes to.
C2_ValuePreserved ==
  Returned =>
    \A i \in Slots :
      EmittedToken(i) # SourceToken(i) =>
        literal_eval(EmittedToken(i)) = literal_eval(SourceToken(i))

\* C3: transform_code never raises, and a literal that cannot be decoded
\* or is of an unsupported category (raw, bytes, triple-quoted) is emitted
\* unmodified.
C3_NeverRaises ==
  Done =>
    /\ out.status = "ok"
    /\ \A i \in Slots :
         (Excluded(SourceToken(i)) \/ ~Decodable(SourceToken(i))) =>
           EmittedToken(i) = SourceToken(i)

\* C4: every raw, byte-prefixed or triple-quoted literal is in the output
\* with its original token text, in key and in text positions, and a
\* source whose literals are all of these categories comes out unchanged.
C4_ExcludedUntouched ==
  Done =>
    /\ \A i \in Slots :
         Excluded(SourceToken(i)) =>
           (out.status = "ok" /\ EmittedToken(i) = SourceToken(i))
    /\ (\A i \in Slots : Excluded(SourceToken(i))) /\ Slots # {} =>
         (out.status = "ok" /\ ~out.changed)

\* The role the source gives literal i.
IsKey(i) == roles[i] = "key"
IsText(i) == roles[i] = "text"

\* The text of the line literal i ends on, and the two opt-out signals.
LineOf(i) == splitlines(SourceCode)[SourceLiterals[i].pos]
TaggedLine(i) == Contains(LineOf(i), NOQA_TAG)
FileWide == Contains(SourceCode, FILE_NOQA)
OptedOut(i) == FileWide \/ TaggedLine(i)

\* The token the default pass makes of literal i, and the token the
\* override makes of that.
DefaultToken(i) == leave_SimpleString(SourceLiterals[i]).value
OverrideToken(i) ==
  LET new_s == to_single_quoted_string(leave_SimpleString(SourceLiterals[i]))
  IN IF new_s # None THEN new_s.value ELSE DefaultToken(i)

\* A key literal C5 speaks of: not raw, bytes or triple-quoted, not opted
\* out, and with a value that can be decoded.
PlainKey(i) ==
  IsKey(i) /\ ~Excluded(SourceToken(i)) /\ Decodable(SourceToken(i)) /\ ~OptedOut(i)

C6_DefaultPassResult ==
  Returned =>
    \A i \in Slots :
      (IsText(i) /\ ~Excluded(SourceToken(i)) /\ Decodable(SourceToken(i))) =>
        IF HasDouble(SourceToken(i)) /\ ~HasSingle(SourceToken(i))
        THEN is_single_quoted(EmittedToken(i))
        ELSE is_double_quoted(EmittedToken(i))

C8_NodeLocalOptOut ==
  (Returned /\ ~FileWide /\ Contains(SourceCode, NOQA_TAG)) =>
    \A i \in Slots :
      IsKey(i) =>
        EmittedToken(i) = IF TaggedLine(i) THEN DefaultToken(i) ELSE OverrideToken(i)

\* The comment of the line literal i stands on carries the opt-out tag.
AnnotatedLine(i) == Contains(module[SourceLiterals[i].pos].comment, NOQA_TAG)

\* C9: a key literal on a line that carries the opt-out comment is emitted
\* with the token it had in the source, and a source of that one line is
\* returned unchanged with changed = FALSE.
C9_OptOutLeavesQuoting ==
  Returned =>
    \A i \in Slots :
      (IsKey(i) /\ AnnotatedLine(i)) =>
        /\ EmittedToken(i) = SourceToken(i)
        /\ (Len(module) = 1 /\ Slots = {i}) => (out.code = SourceCode /\ ~out.changed)

\* The tree n with the token of every string literal left out.
RECURSIVE without_tokens(_)
without_tokens(n) ==
  CASE n.k = "SimpleString" -> [n EXCEPT !.value = << >>]
    [] n.k \in {"Name", "Integer"} -> n
    [] n.k = "Attribute" -> [n EXCEPT !.value = without_tokens(n.value)]
    [] n.k = "Call" ->
         [n EXCEPT !.func = without_tokens(n.func),
                   !.args = [i \in DOMAIN n.args |->
                               [n.args[i] EXCEPT !.value = without_tokens(n.args[i].value)]]]
    [] n.k = "Dict" ->
         [n EXCEPT !.elements = [i \in DOMAIN n.elements |->
            LET e == n.elements[i]
            IN IF e.k = "DictElement"
               THEN [e EXCEPT !.key = without_tokens(e.key), !.value = without_tokens(e.value)]
               ELSE [e EXCEPT !.value = without_tokens(e.value)]]]
    [] n.k \in {"List", "Tuple", "Set"} ->
         [n EXCEPT !.elements = [i \in DOMAIN n.elements |->
            [n.elements[i] EXCEPT !.value = without_tokens(n.elements[i].value)]]]
    [] n.k = "Subscript" ->
         [n EXCEPT !.value = without_tokens(n.value),
                   !.slice = [i \in DOMAIN n.slice |->
                      LET e == n.slice[i]
                      IN IF e.slice.k = "Index"
                         THEN [e EXCEPT !.slice.value = without_tokens(e.slice.value)]
                         ELSE [e EXCEPT !.slice.lower = without_tokens(e.slice.lower),
                                        !.slice.upper = without_tokens(e.slice.upper)]]]

\* The code of m outside its string-literal tokens.
CodeOutsideLiterals(m) ==
  module_code([i \in DOMAIN m |-> [m[i] EXCEPT !.stmt = without_tokens(m[i].stmt)]])

\* C10: the returned text differs from the source only inside
\* string-literal tokens, and a source without a string literal is returned
\* unchanged with changed = FALSE.
C10_LosslessOutsideLiterals ==
  Returned =>
    /\ CodeOutsideLiterals(out.module) = CodeOutsideLiterals(module)
    /\ (Slots = {}) => (out.code = SourceCode /\ ~out.changed)


\* to_single_quoted_string returned a new token for the token of the
\* argument simple, which is double-quoted and not raw, bytes or
\* triple-quoted.
NewTokenForDoubleQuoted ==
  /\ pc = "to_single_quoted_string" /\ out # None
  /\ is_double_quoted(module[1].stmt.value) /\ ~Excluded(module[1].stmt.value)

C15_SingleQuotedKeysKept ==
  (Returned /\ ~FileWide) =>
    \A i \in Slots :
      (IsKey(i) /\ is_single_quoted(SourceToken(i))) => EmittedToken(i) = SourceToken(i)

\* The statement literal i stands in.
StatementOfLiteral(i) == module[SourceLiterals[i].pos].stmt

\* Literal i is the value of a keyword argument or of a starred argument of
\* the call its statement is.
KeywordOrStarred(i) ==
  /\ StatementOfLiteral(i).k = "Call"
  /\ \E j \in DOMAIN StatementOfLiteral(i).args :
       /\ StatementOfLiteral(i).args[j].keyword # "" \/ StatementOfLiteral(i).args[j].star # ""
       /\ StatementOfLiteral(i).args[j].value.k = "SimpleString"
       /\ StatementOfLiteral(i).args[j].value = SourceLiterals[i]

\* C16: a literal that is the value of a keyword argument or of a starred
\* argument of a call is emitted as the default pass produced it, also when
\* it is the first or second entry of the arguments of a recognized call.
C16_KeywordArgumentsNotKeys ==
  Returned => \A i \in Slots : KeywordOrStarred(i) => EmittedToken(i) = DefaultToken(i)

\* The call is one of those leave_Call takes a single key argument from: an
\* attribute builtin, an operator getter, a mapping method or a dunder item
\* or attribute method.
RecognizedCall(stmt) ==
  /\ stmt.k = "Call"
  /\ \/ /\ stmt.func.k \in {"Name", "Attribute"}
        /\ name_parts(stmt.func)[1] \in ATTR_FUNCS \cup OPERATOR_GETTERS
     \/ /\ stmt.func.k = "Attribute"
        /\ stmt.func.attr \in MAPPING_FIRST_KEY_METHODS \cup DUUNDER_KEY \cup DUUNDER_ATTR

\* Literal i is itself an argument of the call its statement is.
DirectArgument(i) ==
  /\ StatementOfLiteral(i).k = "Call"
  /\ \E j \in DOMAIN StatementOfLiteral(i).args :
       /\ StatementOfLiteral(i).args[j].value.k = "SimpleString"
       /\ StatementOfLiteral(i).args[j].value = SourceLiterals[i]

\* C17: a literal that is an argument of a recognized call and does not
\* hold the key position of that call is emitted as the default pass
\* produced it.
C17_OtherArgumentsKept ==
  Returned =>
    \A i \in Slots :
      (RecognizedCall(StatementOfLiteral(i)) /\ DirectArgument(i) /\ IsText(i)) =>
        EmittedToken(i) = DefaultToken(i)

\* A call to a method named one of the dunder attribute methods.
DunderAttrCall(stmt) ==
  stmt.k = "Call" /\ stmt.func.k = "Attribute" /\ stmt.func.attr \in DUUNDER_ATTR

\* The first of the first two arguments of a call that is a string literal
\* (0 when neither is).
AttributeNameArgument(stmt) ==
  IF Len(stmt.args) >= 1 /\ stmt.args[1].value.k = "SimpleString" THEN 1
  ELSE IF Len(stmt.args) >= 2 /\ stmt.args[2].value.k = "SimpleString" THEN 2
  ELSE 0

\* The token the default pass makes of a literal, and the token the
\* override makes of that.
DefaultOf(lit) == leave_SimpleString(lit).value
OverrideOf(lit) ==
  LET new_s == to_single_quoted_string(leave_SimpleString(lit))
  IN IF new_s # None THEN new_s.value ELSE DefaultOf(lit)

\* C18: in a call to a dunder attribute method, in a source without the
\* file-wide text, the first of the first two arguments that is a string
\* literal is emitted as the override makes it, and every other literal
\* argument as the default pass produced it (all of them, when neither of
\* the first two arguments is a string literal).
C18_DunderAttrOneArgument ==
  (Returned /\ ~FileWide) =>
    \A l \in DOMAIN module :
      DunderAttrCall(module[l].stmt) =>
        \A j \in { i \in DOMAIN module[l].stmt.args :
                     module[l].stmt.args[i].value.k = "SimpleString" } :
          out.module[l].stmt.args[j].value.value =
            IF j = AttributeNameArgument(module[l].stmt)
            THEN OverrideOf(module[l].stmt.args[j].value)
            ELSE DefaultOf(module[l].stmt.args[j].value)

\* The second argument of a dunder attribute call is its first string
\* literal, and the override changed it.
C18_Witness ==
  /\ Returned /\ ~FileWide
  /\ \E l \in DOMAIN module :
       /\ DunderAttrCall(module[l].stmt)
       /\ AttributeNameArgument(module[l].stmt) = 2
       /\ OverrideOf(module[l].stmt.args[2].value) # DefaultOf(module[l].stmt.args[2].value)
       /\ out.module[l].stmt.args[2].value.value = OverrideOf(module[l].stmt.args[2].value)

\* C12: every call of main returns, with 1 if some given path that exists,
\* ends in .py and is not excluded yields changed = TRUE, and with 0
\* otherwise, with and without --fix.
C12_ExitStatus ==
  pc \in {"returned", "raised"} =>
    /\ pc = "returned"
    /\ main.rc = <<IF \E k \in DOMAIN main.paths :
                        ~skipped(main.paths[k]) /\ transform_code(parse_module(history.before[main.paths[k]])).changed
                   THEN 1 ELSE 0>>

\* The text of the file at path is the text main found there.
Untouched(path) == read_text(files, path) = read_text(history.before, path)

\* C13: without --fix every file keeps its text; a write is made only with
\* --fix and only of a result with changed = TRUE, and it writes the
\* transformed text, so that a file whose text differs holds the text of a
\* write; a path that is excluded, does not exist or does not end in .py
\* is neither processed nor written.
C13_WriteFrame ==
  /\ ~main.fix => \A path \in DOMAIN files : Untouched(path)
  /\ \A k \in DOMAIN history.written :
       /\ main.fix
       /\ transform_code(parse_module(history.written[k].original)).changed
       /\ history.written[k].code =
            transform_code(parse_module(history.written[k].original)).code
  /\ \A path \in DOMAIN files :
       ~Untouched(path) =>
         \E k \in DOMAIN history.written :
           /\ history.written[k].path = path
           /\ history.written[k].code = read_text(files, path)
  /\ \A path \in GivenPaths :
       skipped(path) =>
         /\ path \notin Range(history.processed)
         /\ path \in DOMAIN files => Untouched(path)

\* A call with --fix returned after it wrote a file, and an excluded .py
\* file it was given still holds its text, which a run would change.
C13_Witness ==
  /\ pc = "returned" /\ main.fix
  /\ history.written # << >>
  /\ \E k \in DOMAIN main.paths :
       /\ main.paths[k] \in DOMAIN files
       /\ suffix(main.paths[k]) = <<".", "p", "y">>
       /\ is_path_excluded(main.paths[k], main.config.excludes)
       /\ transform_code(parse_module(history.before[main.paths[k]])).changed
       /\ Untouched(main.paths[k])

\* C19: the call of main that follows a call with --fix that returned
\* returns 0 and writes no file.
C19_FixConverges ==
  (/\ pc \in {"returned", "raised"}
   /\ history.calls # << >>
   /\ history.calls[Len(history.calls)].fix
   /\ history.calls[Len(history.calls)].returned) =>
    /\ pc = "returned"
    /\ main.rc = <<0>>
    /\ history.written = << >>

====
